---------------------------- MODULE Spec2Model ----------------------------
(***************************************************************************)
(* FastMap embedding engine: src/fastmap/core.py (FastMapABC, "core") and  *)
(* src/python/fastmap.py (FastMapSVM, "svm").                              *)
(*                                                                         *)
(* Numbers.  The source computes in floating point.  Here a float is an    *)
(* integer in a fixed-point grid of unit 1 (sqrt and division round to the *)
(* nearest grid point, so sqrt followed by squaring is not the identity),  *)
(* or one of the three IEEE specials NaN, PInf, NInf.  EPSILON is 1/EpsInv *)
(* of that unit: d / (2*d_ij + EPSILON) is (d*EpsInv) / (2*d_ij*EpsInv+1). *)
(*                                                                         *)
(* Objects.  The caller's objects are opaque; the model names them         *)
(* 0..NObj-1 and the distance oracle is a table dfun over pairs of them.   *)
(* The training set X is the sequence of all objects, so that object k is  *)
(* at index k.                                                             *)
(***************************************************************************)
EXTENDS Integers, Sequences, FiniteSets

\* ------------------------------------------------------------------ bounds
NObj == 4
NDim == 2
MaxDist == 1
MaxBatch == 2
\* transform is handed up to MaxNew objects: one more than the largest batch,
\* so that a batch size can fail to divide the number of objects
MaxNew == MaxBatch + 1
\* the residual-distance functions are tried on raw distances 0..MaxRaw and
\* coordinates 0..MaxCoord
MaxRaw == 3
MaxCoord == 2

\* 1/EPSILON in the model's unit (core.py: EPSILON = 1e-9)
EpsInv == 1000

Obj == 0 .. (NObj - 1)
Dim == 0 .. (NDim - 1)

\* ------------------------------------------------------------------ floats
NaN == 2000000
PInf == 1000000
NInf == -1000000
\* fill value of an integer table that holds no object index yet; also the
\* model's None / unbound local
Unset == -1

IsNaN(x) == x = NaN
IsInf(x) == x = PInf \/ x = NInf
IsFinite(x) == ~IsNaN(x) /\ ~IsInf(x)

Max(a, b) == IF a >= b THEN a ELSE b

\* np.sqrt on a non-negative finite value, rounded to the nearest grid point
Sqrt(n) ==
    LET r == CHOOSE s \in 0 .. n : s * s <= n /\ (s + 1) * (s + 1) > n
    IN IF n - r * r > r THEN r + 1 ELSE r

\* n / d for d > 0, rounded to the nearest grid point
RoundDiv(n, d) == (2 * n + d) \div (2 * d)

\* a - b
FSub(a, b) ==
    IF IsNaN(a) \/ IsNaN(b) THEN NaN
    ELSE IF IsInf(a) /\ IsInf(b) THEN (IF a = b THEN NaN ELSE a)
    ELSE IF IsInf(a) THEN a
    ELSE IF IsInf(b) THEN (IF b = PInf THEN NInf ELSE PInf)
    ELSE a - b

\* a + b
FAdd(a, b) == FSub(a, IF IsNaN(b) THEN NaN ELSE -b)

\* np.square of a distance (finite and >= 0, or NaN)
FSquare(a) == IF IsNaN(a) THEN NaN ELSE a * a

\* One pass of the loop body of distance_matrix / furthest / transform:
\*   dist = sqrt(clip(dist**2 - dW[:, i], 0, inf)),  dW = square(wa - wb)
ClipStep(dist, wa, wb) ==
    LET dw == FSub(wa, wb)
    IN IF IsNaN(dist) \/ IsNaN(dw) THEN NaN
       ELSE IF IsInf(dw) THEN 0
       ELSE Sqrt(Max(dist * dist - dw * dw, 0))

\* range(self._ihyprpln + 1)
ReadColsInclusive(k) == 0 .. k

\* `for i in range(self._ihyprpln)`: the columns a residual distance at
\* cursor k takes from the two coordinate rows
ReadCols(k) == 0 .. (k - 1)

\* core.py residual distance: the raw distance corrected by the columns
\* cols of the two coordinate rows in ascending order, clamping and
\* continuing
RECURSIVE ClipLoop(_, _, _, _)
ClipLoop(dist, a, b, cols) ==
    IF cols = {} THEN dist
    ELSE LET i == CHOOSE c \in cols : \A c2 \in cols : c <= c2
         IN ClipLoop(ClipStep(dist, a[i], b[i]), a, b, cols \ {i})

ResidualCore(dist, a, b, k) == ClipLoop(dist, a, b, ReadCols(k))

\* fastmap.py distance / _pdist: `return (0)` at the first underflow
RECURSIVE PdistLoop(_, _, _, _)
PdistLoop(dist, a, b, cols) ==
    IF cols = {} THEN dist
    ELSE LET i == CHOOSE c \in cols : \A c2 \in cols : c <= c2
             dw == FSub(a[i], b[i])
         IN IF IsNaN(dist) \/ IsNaN(dw) THEN PdistLoop(NaN, a, b, cols \ {i})
            ELSE IF IsInf(dw) THEN 0
            ELSE IF dist * dist < dw * dw THEN 0
            ELSE PdistLoop(Sqrt(dist * dist - dw * dw), a, b, cols \ {i})

\* as PdistLoop, but an underflow leaves the distance as it is
RECURSIVE PdistLoopKeep(_, _, _, _)
PdistLoopKeep(dist, a, b, cols) ==
    IF cols = {} THEN dist
    ELSE LET i == CHOOSE c \in cols : \A c2 \in cols : c <= c2
             dw == FSub(a[i], b[i])
         IN IF IsNaN(dist) \/ IsNaN(dw) THEN PdistLoopKeep(NaN, a, b, cols \ {i})
            ELSE IF IsInf(dw) THEN 0
            ELSE IF dist * dist < dw * dw THEN PdistLoopKeep(dist, a, b, cols \ {i})
            ELSE PdistLoopKeep(Sqrt(dist * dist - dw * dw), a, b, cols \ {i})

ResidualSvmKeep(dist, a, b, k) == PdistLoopKeep(dist, a, b, 0 .. (k - 1))

ResidualSvm(dist, a, b, k) == PdistLoop(dist, a, b, ReadCols(k))

\* ------------------------------------------------------------------ arrays
Min(a, b) == IF a <= b THEN a ELSE b

\* np.arange(n)
arange(n) == [i \in 1 .. n |-> i - 1]

\* np.argwhere(y == label).flatten()
argwhere(lbls, label) == SelectSeq(arange(NObj), LAMBDA o : lbls[o] = label)

\* np.argsort: positions in ascending order of the keys, equal keys in
\* position order (numpy's default sort is an insertion sort on arrays this
\* small); NaN sorts after every number (NaN is the largest code)
RECURSIVE AscOrder(_, _)
AscOrder(keys, S) ==
    IF S = {} THEN << >>
    ELSE LET m == CHOOSE p \in S : \A q \in S :
                      keys[p] < keys[q] \/ (keys[p] = keys[q] /\ p <= q)
         IN << m >> \o AscOrder(keys, S \ {m})

argsort(keys) == AscOrder(keys, DOMAIN keys)

\* seq[-1::-1]
Reverse(s) == [p \in 1 .. Len(s) |-> s[Len(s) + 1 - p]]

\* as ForBreak, with the loop variable bound to index 0 before the loop
ForBreakBound(seq, forbidden, before) ==
    IF seq = << >> THEN 0
    ELSE IF \E p \in DOMAIN seq : seq[p] \notin forbidden
         THEN seq[CHOOSE p \in DOMAIN seq :
                    /\ seq[p] \notin forbidden
                    /\ \A q \in 1 .. (p - 1) : seq[q] \in forbidden]
         ELSE seq[Len(seq)]

\* `for v in seq: if v not in forbidden: break` -- the value v is bound to
\* afterwards: the first element outside forbidden, else the last element,
\* else (empty seq) whatever v was bound to before the loop
ForBreak(seq, forbidden, before) ==
    IF seq = << >> THEN before
    ELSE IF \E p \in DOMAIN seq : seq[p] \notin forbidden
         THEN seq[CHOOSE p \in DOMAIN seq :
                    /\ seq[p] \notin forbidden
                    /\ \A q \in 1 .. (p - 1) : seq[q] \in forbidden]
         ELSE seq[Len(seq)]

\* pivot_ids[:k, 0]: the first slot only
ForbiddenFirstSlot(ids, k) == {ids[d][1] : d \in 0 .. (k - 1)}

\* pivot_ids[:k].flatten(), as the set `in` tests against
Forbidden(ids, k) == UNION {{ids[d][1], ids[d][2]} : d \in 0 .. (k - 1)}

\* The chunks range(0, n, b) cuts 0..n-1 into: [i, min(i+b, n)) from start i
ChunkEnd(i, n, b) == Min(i + b, n)

\* [f(seq[i: i+b]) for i in range(0, len(seq), b)], concatenated; f maps
\* each element on its own and is given as a table over the objects
RECURSIVE BatchMap(_, _, _, _)
BatchMap(f, seq, i, b) ==
    IF i >= Len(seq) THEN << >>
    ELSE LET chunk == SubSeq(seq, i + 1, ChunkEnd(i, Len(seq), b))
         IN [p \in DOMAIN chunk |-> f[chunk[p]]] \o BatchMap(f, seq, i + b, b)

\* ------------------------------------------------------------------ formulas
\* d_ik**2 - d_jk**2 + d_ij**2
Numerator(dik, djk, dij) == FAdd(FSub(FSquare(dik), FSquare(djk)), FSquare(dij))

\* core.py: d /= (2 * d_ij + EPSILON)
EpsDiv(num, dij) ==
    IF IsNaN(num) \/ IsNaN(dij) THEN NaN
    ELSE RoundDiv(num * EpsInv, 2 * dij * EpsInv + 1)

\* fastmap.py: d /= (2 * d_ij), IEEE division by zero
ZeroDiv(num, dij) ==
    IF IsNaN(num) \/ IsNaN(dij) THEN NaN
    ELSE IF dij = 0 THEN (IF num > 0 THEN PInf ELSE IF num < 0 THEN NInf ELSE NaN)
    ELSE RoundDiv(num, 2 * dij)

\* core.py: d = clip(d, 0, inf); fastmap.py: d[d < 0] = 0
ClampNeg(v) == IF IsNaN(v) THEN NaN ELSE Max(v, 0)

\* a training coordinate of fit (core.py 372-379)
CoordFit(dik, djk, dij) == ClampNeg(EpsDiv(Numerator(dik, djk, dij), dij))

\* a coordinate of transform (core.py 429-432): no clamp
CoordTransform(dik, djk, dij) == EpsDiv(Numerator(dik, djk, dij), dij)

\* a training coordinate of embed_database (fastmap.py 372-377)
CoordEmbedDatabase(dik, djk, dij) == ClampNeg(ZeroDiv(Numerator(dik, djk, dij), dij))

\* a coordinate of embed (fastmap.py 346-349)
CoordEmbed(dik, djk, dij) == ZeroDiv(Numerator(dik, djk, dij), dij)

\* ------------------------------------------------------------------ state
VARIABLES
    impl,        \* "core" (FastMapABC) or "svm" (FastMapSVM)
    dfun,        \* the caller's distance function, a table over object pairs
    yin,         \* the labels the caller passes to fit (NoLabels: y=None)
    batch_size,  \* self._batch_size
    held,        \* the attributes / datasets the engine currently holds
    supervised,  \* self._supervised
    y,           \* self._y
    ihyprpln,    \* self._ihyprpln, the dimension cursor
    pivot_ids,   \* self._pivot_ids
    X_piv,       \* self._X_piv: the pivot objects themselves
    W,           \* self.W, the training embedding
    W_piv,       \* self._W_piv
    pc,          \* where the call in progress stands; "idle": none
    i_obj,       \* _choose_pivots: i_obj (core), _iobj (svm)
    j_obj,       \* _choose_pivots: j_obj (core), _jobj (svm)
    prev,        \* _choose_pivots (svm): (iobj, jobj) of the last round
    Xq,          \* transform / embed: the objects to embed
    Wq,          \* transform / embed: the matrix being built and returned
    i_start,     \* transform: start of the current batch
    nxt,         \* transform / embed: next value of the dimension loop
    wr,          \* history: cells (row, column) written by the call
    rd,          \* history: cells the last step read coordinates from
    dcalled,     \* history: the call has evaluated the distance function
    pf           \* inputs and results of the residual-distance functions

vars == << impl, dfun, yin, batch_size, held, supervised, y, ihyprpln,
           pivot_ids, X_piv, W, W_piv, pc, i_obj, j_obj, prev, Xq, Wq,
           i_start, nxt, wr, rd, dcalled, pf >>

config == << impl, dfun, yin, batch_size >>
locals == << i_obj, j_obj, prev >>
query == << Xq, Wq, i_start, nxt >>

Pairs == {p \in Obj \X Obj : p[1] < p[2]}

\* a symmetric distance table with d(a, a) = 0 from its upper triangle
Sym(g) == [p \in Obj \X Obj |->
             IF p[1] = p[2] THEN 0
             ELSE g[<< Min(p[1], p[2]), Max(p[1], p[2]) >>]]

NoLabels == [o \in Obj |-> Unset]
NanRow == [d \in Dim |-> NaN]
ZeroRow == [d \in Dim |-> 0]
\* np.full(..., np.nan): float tables hold NaN, the uint16 table no index
NanMatrix == [o \in Obj |-> NanRow]
NoPivots == [d \in Dim |-> << Unset, Unset >>]
NanPivots == [d \in Dim |-> << NanRow, NanRow >>]
Empty == << >>

\* the state after __init__
Init ==
    /\ impl \in {"core", "svm"}
    /\ \E g \in [Pairs -> 0 .. MaxDist] : dfun = Sym(g)
    /\ yin \in [Obj -> {0, 1}] \cup {NoLabels}
    /\ impl = "svm" => yin # NoLabels
    /\ batch_size \in 1 .. MaxBatch
    /\ impl = "svm" => batch_size = 1
    /\ held = {}
    /\ supervised = FALSE
    /\ y = NoLabels
    /\ ihyprpln = 0
    /\ pivot_ids = NoPivots
    /\ X_piv = NoPivots
    /\ W = NanMatrix
    /\ W_piv = NanPivots
    /\ pc = "idle"
    /\ i_obj = Unset /\ j_obj = Unset /\ prev = << Unset, Unset >>
    /\ Xq = Empty /\ Wq = Empty /\ i_start = 0 /\ nxt = 0
    /\ wr = {} /\ rd = {} /\ dcalled = FALSE
    /\ pf = Empty

\* ------------------------------------------------------------------ distances
\* core.py distance_matrix(i_objs, j): the residual distances of the objects
\* i_objs to object j, the raw distances taken batch by batch
distance_matrix(i_objs, j, Wm, k, b) ==
    LET raw == BatchMap([o \in Obj |-> dfun[<< o, j >>]], i_objs, 0, b)
    IN [p \in DOMAIN i_objs |-> ResidualCore(raw[p], Wm[i_objs[p]], Wm[j], k)]

\* fastmap.py pdist(iobj, jobjs) for one iobj
pdist(i, j_objs, Wm, k) ==
    [p \in DOMAIN j_objs |->
        ResidualSvm(dfun[<< i, j_objs[p] >>], Wm[i], Wm[j_objs[p]], k)]

\* the objects a ranking runs over: all of them, or those of one label
Eligible(lbls, label) ==
    IF label = Unset THEN arange(NObj) ELSE argwhere(lbls, label)

\* core.py furthest(i_obj, label): the eligible objects, furthest first
FurthestCore(i, label, lbls, Wm, k) ==
    LET idxs == Eligible(lbls, label)
        dist == [p \in DOMAIN idxs |->
                    ResidualCore(dfun[<< idxs[p], i >>], Wm[idxs[p]], Wm[i], k)]
        order == argsort(dist)
    IN Reverse([p \in DOMAIN idxs |-> idxs[order[p]]])

\* fastmap.py furthest(iobj, label)
FurthestSvm(i, label, lbls, Wm, k) ==
    LET idxs == Eligible(lbls, label)
        order == Reverse(argsort(pdist(i, idxs, Wm, k)))
    IN [p \in DOMAIN idxs |-> idxs[order[p]]]

furthest(i, label, lbls, Wm, k) ==
    IF impl = "core" THEN FurthestCore(i, label, lbls, Wm, k)
    ELSE FurthestSvm(i, label, lbls, Wm, k)

\* ------------------------------------------------------------------ fit
\* the cells of columns 0..k-1 of the given rows
Cells(rows, k) == {<< r, c >> : r \in rows, c \in ReadCols(k)}
Column(rows, k) == {<< r, k >> : r \in rows}

\* core.py fit, up to the first pass of its loop: X, y and a fresh W are
\* set, the cursor starts at 0
FitBegin ==
    /\ pc = "idle" /\ impl = "core"
    /\ held' = held \cup {"_X", "W"} \cup (IF yin # NoLabels THEN {"_y"} ELSE {})
    /\ supervised' = (yin # NoLabels)
    /\ y' = yin
    /\ W' = NanMatrix
    /\ ihyprpln' = 0
    /\ pc' = "draw"
    /\ i_obj' = Unset /\ j_obj' = Unset /\ prev' = << Unset, Unset >>
    /\ Xq' = Empty /\ Wq' = Empty /\ i_start' = 0 /\ nxt' = 0
    /\ wr' = {} /\ rd' = {} /\ dcalled' = FALSE
    /\ UNCHANGED << config, pivot_ids, X_piv, W_piv, pf >>

\* fastmap.py fit -> embed_database, up to the first pass of its loop; the y
\* setter raises once the backend holds labels, so fit runs once
SvmFitBegin ==
    /\ pc = "idle" /\ impl = "svm"
    /\ "_y" \notin held
    /\ held' = held \cup {"_X", "_y"}
    /\ supervised' = TRUE
    /\ y' = yin
    /\ ihyprpln' = 0
    /\ pc' = "draw"
    /\ i_obj' = Unset /\ j_obj' = Unset /\ prev' = << Unset, Unset >>
    /\ Xq' = Empty /\ Wq' = Empty /\ i_start' = 0 /\ nxt' = 0
    /\ wr' = {} /\ rd' = {} /\ dcalled' = FALSE
    /\ UNCHANGED << config, pivot_ids, X_piv, W, W_piv, pf >>

\* the pool the random start is drawn from
DrawPool == IF supervised THEN argwhere(y, 1) ELSE arange(NObj)

\* _choose_pivots, one pass of `while True: j_obj = np.random.choice(idxs)`:
\* an empty pool raises, a forbidden draw repeats the pass
Draw ==
    /\ pc = "draw"
    /\ held' = held \cup {"_pivot_ids"}
    /\ IF DrawPool = << >>
       THEN pc' = "error" /\ j_obj' = j_obj
       ELSE \E p \in DOMAIN DrawPool :
              /\ j_obj' = DrawPool[p]
              /\ pc' = IF DrawPool[p] \in Forbidden(pivot_ids, ihyprpln)
                       THEN "draw" ELSE "refine"
    /\ UNCHANGED << config, supervised, y, ihyprpln, pivot_ids, X_piv, W,
                    W_piv, i_obj, prev, query, wr, rd, dcalled, pf >>

\* the first ranking taken over every object, whatever the labels
Label0Any == Unset

Label0 == IF supervised THEN 0 ELSE Unset
Label1 == IF supervised THEN 1 ELSE Unset

\* core.py _choose_pivots after the draw (225-243), and the lines of fit that
\* record what it returns (366-369).  An empty ranking leaves i_obj unbound
\* and the next use of it raises.
ChoosePivots ==
    /\ pc = "refine" /\ impl = "core"
    /\ LET forbidden == Forbidden(pivot_ids, ihyprpln)
           f1 == furthest(j_obj, Label0, y, W, ihyprpln)
           i == ForBreak(f1, forbidden, Unset)
       IN IF i = Unset
          THEN /\ pc' = "error"
               /\ UNCHANGED << pivot_ids, X_piv, held, dcalled, rd >>
          ELSE LET f2 == furthest(i, Label1, y, W, ihyprpln)
                   j == ForBreak(f2, forbidden, j_obj)
               IN /\ pivot_ids' = [pivot_ids EXCEPT ![ihyprpln] = << i, j >>]
                  /\ X_piv' = [X_piv EXCEPT ![ihyprpln] = << i, j >>]
                  /\ held' = held \cup {"_X_piv"}
                  /\ dcalled' = TRUE
                  /\ rd' = Cells(Obj, ihyprpln)
                  /\ pc' = "coords"
    /\ i_obj' = Unset /\ j_obj' = Unset
    /\ UNCHANGED << config, supervised, y, ihyprpln, W, W_piv, prev, query,
                    wr, pf >>

\* fastmap.py _choose_pivots, one pass of the refinement loop (251-265); on
\* a repeated pair it returns and embed_database records the pair (364-366)
SvmRefine ==
    /\ pc = "refine" /\ impl = "svm"
    /\ LET forbidden == Forbidden(pivot_ids, ihyprpln)
           f1 == furthest(j_obj, 0, y, W, ihyprpln)
           i == ForBreak(f1, forbidden, i_obj)
       IN IF i = Unset
          THEN /\ pc' = "error"
               /\ UNCHANGED << pivot_ids, X_piv, held, dcalled, rd, locals >>
          ELSE LET f2 == furthest(i, 1, y, W, ihyprpln)
                   j == ForBreak(f2, forbidden, j_obj)
               IN /\ dcalled' = TRUE
                  /\ rd' = Cells(Obj, ihyprpln)
                  /\ IF << i, j >> = prev
                     THEN /\ pivot_ids' = [pivot_ids EXCEPT ![ihyprpln] = prev]
                          /\ X_piv' = [X_piv EXCEPT ![ihyprpln] = prev]
                          /\ held' = held \cup {"W", "_X_piv"}
                          /\ pc' = "coords"
                          /\ i_obj' = Unset /\ j_obj' = Unset
                          /\ prev' = << Unset, Unset >>
                     ELSE /\ prev' = << i, j >>
                          /\ i_obj' = i /\ j_obj' = j
                          /\ held' = held \cup {"W"}
                          /\ pc' = "refine"
                          /\ UNCHANGED << pivot_ids, X_piv >>
    /\ UNCHANGED << config, supervised, y, ihyprpln, W, W_piv, query, wr, pf >>

\* the column of dimension k for the pivots (i_piv, j_piv): core.py 371-379
ColumnFit(i_piv, j_piv, Wm, k, b) ==
    LET d_ij == distance_matrix(<< i_piv >>, j_piv, Wm, k, b)[1]
        d_i == distance_matrix(arange(NObj), i_piv, Wm, k, b)
        d_j == distance_matrix(arange(NObj), j_piv, Wm, k, b)
    IN [o \in Obj |-> CoordFit(d_i[o + 1], d_j[o + 1], d_ij)]

\* fastmap.py 367-377
ColumnEmbedDatabase(i_piv, j_piv, Wm, k) ==
    LET d_ij == ResidualSvm(dfun[<< i_piv, j_piv >>], Wm[i_piv], Wm[j_piv], k)
        d(o, piv) == ResidualSvm(dfun[<< o, piv >>], Wm[o], Wm[piv], k)
    IN [o \in Obj |-> CoordEmbedDatabase(d(o, i_piv), d(o, j_piv), d_ij)]

\* the rest of one pass of the loop of fit / embed_database: column
\* ihyprpln of W is computed and written; the loop then moves the cursor on
WriteColumn ==
    /\ pc = "coords"
    /\ LET k == ihyprpln
           i_piv == pivot_ids[k][1]
           j_piv == pivot_ids[k][2]
           col == IF impl = "core"
                  THEN ColumnFit(i_piv, j_piv, W, k, batch_size)
                  ELSE ColumnEmbedDatabase(i_piv, j_piv, W, k)
       IN /\ W' = [o \in Obj |-> [W[o] EXCEPT ![k] = col[o]]]
          /\ wr' = wr \cup Column(Obj, k)
          /\ rd' = Cells(Obj, k)
          /\ IF k + 1 < NDim
             THEN ihyprpln' = k + 1 /\ pc' = "draw"
             ELSE ihyprpln' = k /\ pc' = "finish"
    /\ UNCHANGED << config, held, supervised, y, pivot_ids, X_piv, W_piv,
                    locals, query, dcalled, pf >>

\* W_piv[i_dim] = (W[i_piv], W[j_piv]) for every dimension
PivotRows(ids, Wm) == [d \in Dim |-> << Wm[ids[d][1]], Wm[ids[d][2]] >>]

\* del(self._pivot_ids, self._X, self.W); del(self._y)
Deleted == {"_pivot_ids", "_X", "W", "_y"}

\* the rows W_piv is filled from
PivotCells(ids) ==
    {<< ids[d][s], c >> : d \in Dim, s \in 1 .. 2, c \in Dim}

\* core.py fit 383-392: the pivots' rows are kept, the pivot table, X, W and
\* y are deleted (and with W its cells), the cursor is reset
FitFinish ==
    /\ pc = "finish" /\ impl = "core"
    /\ W_piv' = PivotRows(pivot_ids, W)
    /\ held' = (held \cup {"_W_piv"}) \ Deleted
    /\ pivot_ids' = IF "_pivot_ids" \in Deleted THEN NoPivots ELSE pivot_ids
    /\ W' = IF "W" \in Deleted THEN NanMatrix ELSE W
    /\ y' = IF "_y" \in Deleted THEN NoLabels ELSE y
    /\ ihyprpln' = 0
    /\ pc' = "idle"
    /\ rd' = PivotCells(pivot_ids)
    /\ wr' = {}
    /\ UNCHANGED << config, supervised, X_piv, locals, query, dcalled, pf >>

\* fastmap.py embed_database 381-385: the pivots' rows are kept; nothing is
\* deleted and the cursor is left where the loop ended
SvmFitFinish ==
    /\ pc = "finish" /\ impl = "svm"
    /\ W_piv' = PivotRows(pivot_ids, W)
    /\ held' = held \cup {"_W_piv"}
    /\ pc' = "idle"
    /\ rd' = PivotCells(pivot_ids)
    /\ UNCHANGED << config, supervised, y, ihyprpln, pivot_ids, X_piv, W,
                    locals, query, wr, dcalled, pf >>

\* ------------------------------------------------------------------ transform
\* the objects handed to transform / embed: n objects from object s on
Query(n, s) == [r \in 0 .. (n - 1) |-> (s + r) % NObj]

NRows == Cardinality(DOMAIN Xq)
Trained == "_X_piv" \in held /\ "_W_piv" \in held

\* core.py transform 400-405: the zero matrix W; no batch, no pass when X is
\* empty
TransformBegin ==
    /\ pc = "idle" /\ impl = "core" /\ Trained
    /\ \E n \in 0 .. MaxNew, s \in Obj :
         /\ n = 0 => s = 0
         /\ Xq' = Query(n, s)
         /\ Wq' = [r \in 0 .. (n - 1) |-> ZeroRow]
         /\ pc' = IF n = 0 THEN "idle" ELSE "batch"
    /\ i_start' = 0 /\ nxt' = 0
    /\ wr' = {} /\ rd' = {} /\ dcalled' = FALSE
    /\ UNCHANGED << config, held, supervised, y, ihyprpln, pivot_ids, X_piv,
                    W, W_piv, locals, pf >>

\* column d of the rows of one batch: core.py 419-432
ColumnTransform(Xs, Wm, rows, d) ==
    LET p_i == X_piv[d][1]
        p_j == X_piv[d][2]
        d_ij == ResidualCore(dfun[<< p_i, p_j >>], W_piv[d][1], W_piv[d][2], d)
        d_ik(r) == ResidualCore(dfun[<< Xs[r], p_i >>], Wm[r], W_piv[d][1], d)
        d_jk(r) == ResidualCore(dfun[<< Xs[r], p_j >>], Wm[r], W_piv[d][2], d)
    IN [r \in rows |-> CoordTransform(d_ik(r), d_jk(r), d_ij)]

\* range(0, n - b + 1, b): a last, partial batch is left out
BatchRowsWhole(i, n, b) == IF i + b <= n THEN i .. (i + b - 1) ELSE {}

\* the rows of the batch that starts at row i
BatchRows(i, n, b) == i .. (ChunkEnd(i, n, b) - 1)

\* one pass of the inner loop of transform (418-433): the matrix with column
\* d written for the rows of the batch that starts at row i
TransformPass(Xs, Wm, i, d, b) ==
    LET rows == BatchRows(i, Cardinality(DOMAIN Xs), b)
        col == ColumnTransform(Xs, Wm, rows, d)
    IN [r \in DOMAIN Wm |->
          IF r \in rows THEN [Wm[r] EXCEPT ![d] = col[r]] ELSE Wm[r]]

\* core.py transform as a whole (406-435), from batch start i and
\* dimension d on
RECURSIVE TransformFrom(_, _, _, _, _)
TransformFrom(Xs, Wm, i, d, b) ==
    IF i >= Cardinality(DOMAIN Xs) THEN Wm
    ELSE IF d + 1 < NDim
         THEN TransformFrom(Xs, TransformPass(Xs, Wm, i, d, b), i, d + 1, b)
         ELSE TransformFrom(Xs, TransformPass(Xs, Wm, i, d, b), i + b, 0, b)

transform(Xs, b) == TransformFrom(Xs, [r \in DOMAIN Xs |-> ZeroRow], 0, 0, b)

\* core.py transform, one pass of the inner loop (418-433): the cursor takes
\* the next dimension, that column is written for the rows of the current
\* batch; after the last dimension the outer loop takes the next batch
TransformStep ==
    /\ pc = "batch"
    /\ LET d == nxt
           rows == BatchRows(i_start, NRows, batch_size)
       IN /\ ihyprpln' = d
          /\ Wq' = TransformPass(Xq, Wq, i_start, d, batch_size)
          /\ wr' = wr \cup Column(rows, d)
          /\ rd' = Cells(rows, d)
          /\ dcalled' = TRUE
          /\ IF d + 1 < NDim
             THEN nxt' = d + 1 /\ i_start' = i_start /\ pc' = "batch"
             ELSE IF i_start + batch_size < NRows
                  THEN nxt' = 0 /\ i_start' = i_start + batch_size /\ pc' = "batch"
                  ELSE nxt' = 0 /\ i_start' = 0 /\ pc' = "idle"
    /\ UNCHANGED << config, held, supervised, y, pivot_ids, X_piv, W, W_piv,
                    locals, Xq, pf >>

\* fastmap.py embed 333-335
EmbedBegin ==
    /\ pc = "idle" /\ impl = "svm" /\ Trained
    /\ \E n \in 0 .. MaxNew, s \in Obj :
         /\ n = 0 => s = 0
         /\ Xq' = Query(n, s)
         /\ Wq' = [r \in 0 .. (n - 1) |-> ZeroRow]
    /\ pc' = "embed"
    /\ i_start' = 0 /\ nxt' = 0
    /\ wr' = {} /\ rd' = {} /\ dcalled' = FALSE
    /\ UNCHANGED << config, held, supervised, y, ihyprpln, pivot_ids, X_piv,
                    W, W_piv, locals, pf >>

\* column d of every row: fastmap.py 339-349
ColumnEmbed(d) ==
    LET p_i == X_piv[d][1]
        p_j == X_piv[d][2]
        d_ij == ResidualSvm(dfun[<< p_i, p_j >>], W_piv[d][1], W_piv[d][2], d)
        d_ik(r) == ResidualSvm(dfun[<< p_i, Xq[r] >>], W_piv[d][1], Wq[r], d)
        d_jk(r) == ResidualSvm(dfun[<< p_j, Xq[r] >>], W_piv[d][2], Wq[r], d)
    IN [r \in DOMAIN Xq |-> CoordEmbed(d_ik(r), d_jk(r), d_ij)]

\* fastmap.py embed, one pass of its loop (337-349)
EmbedStep ==
    /\ pc = "embed"
    /\ LET d == nxt
           col == ColumnEmbed(d)
       IN /\ ihyprpln' = d
          /\ Wq' = [r \in DOMAIN Wq |-> [Wq[r] EXCEPT ![d] = col[r]]]
          /\ wr' = wr \cup Column(DOMAIN Xq, d)
          /\ rd' = Cells(DOMAIN Xq, d)
          /\ dcalled' = (dcalled \/ NRows > 0)
          /\ IF d + 1 < NDim
             THEN nxt' = d + 1 /\ pc' = "embed"
             ELSE nxt' = 0 /\ pc' = "idle"
    /\ UNCHANGED << config, held, supervised, y, pivot_ids, X_piv, W, W_piv,
                    locals, Xq, i_start, pf >>

Next ==
    \/ FitBegin
    \/ SvmFitBegin
    \/ Draw
    \/ ChoosePivots
    \/ SvmRefine
    \/ WriteColumn
    \/ FitFinish
    \/ SvmFitFinish
    \/ TransformBegin
    \/ TransformStep
    \/ EmbedBegin
    \/ EmbedStep

Spec == Init /\ [][Next]_vars

\* ------------------------------------------------------------------ residual distance alone
\* The two residual-distance functions applied to every raw distance, cursor
\* and pair of coordinate rows of the bounds; the engine stays as constructed.
engine == << impl, dfun, yin, batch_size, held, supervised, y, ihyprpln,
             pivot_ids, X_piv, W, W_piv, pc, i_obj, j_obj, prev, Xq, Wq,
             i_start, nxt, wr, rd, dcalled >>

ResidInit ==
    /\ impl = "core"
    /\ dfun = Sym([p \in Pairs |-> 0])
    /\ yin = NoLabels
    /\ batch_size = 1
    /\ held = {}
    /\ supervised = FALSE
    /\ y = NoLabels
    /\ ihyprpln = 0
    /\ pivot_ids = NoPivots
    /\ X_piv = NoPivots
    /\ W = NanMatrix
    /\ W_piv = NanPivots
    /\ pc = "idle"
    /\ i_obj = Unset /\ j_obj = Unset /\ prev = << Unset, Unset >>
    /\ Xq = Empty /\ Wq = Empty /\ i_start = 0 /\ nxt = 0
    /\ wr = {} /\ rd = {} /\ dcalled = FALSE
    /\ \E d \in 0 .. MaxRaw, k \in 0 .. NDim,
          a \in [Dim -> 0 .. MaxCoord], b \in [Dim -> 0 .. MaxCoord] :
         pf = [dist |-> d, k |-> k, a |-> a, b |-> b,
               core |-> Unset, svm |-> Unset]

\* distance_matrix / furthest (core.py 301-302) on the inputs
ResidApplyCore ==
    /\ pf.core = Unset
    /\ pf' = [pf EXCEPT !.core = ResidualCore(pf.dist, pf.a, pf.b, pf.k)]
    /\ UNCHANGED engine

\* distance / _pdist (fastmap.py 317-325, 30-37) on the inputs
ResidApplySvm ==
    /\ pf.svm = Unset
    /\ pf' = [pf EXCEPT !.svm = ResidualSvm(pf.dist, pf.a, pf.b, pf.k)]
    /\ UNCHANGED engine

ResidNext ==
    \/ ResidApplyCore
    \/ ResidApplySvm

ResidSpec == ResidInit /\ [][ResidNext]_vars

\* ------------------------------------------------------------------ claims
FitStages == {"draw", "refine", "coords", "finish"}
Filled(d) == pivot_ids[d] # << Unset, Unset >>
PivotsOf(d) == {pivot_ids[d][1], pivot_ids[d][2]}
LabelCount(l) == Cardinality({o \in Obj : yin[o] = l})

\* at least 2*D objects, and with labels at least D of each label
EnoughObjects ==
    IF yin = NoLabels THEN NObj >= 2 * NDim
    ELSE LabelCount(0) >= NDim /\ LabelCount(1) >= NDim

\* C1: with enough eligible objects, no object is a pivot of two
\* dimensions (either slot), in fit and in embed_database, whatever the
\* distances and the random start.
C1_PivotExclusivity ==
    EnoughObjects =>
        \A d1 \in Dim, d2 \in Dim :
            (d1 < d2 /\ Filled(d1) /\ Filled(d2))
                => PivotsOf(d1) \cap PivotsOf(d2) = {}

\* the last dimension's pivots have been chosen, with enough objects
C1_Witness ==
    /\ EnoughObjects
    /\ pc = "finish"
    /\ \A d \in Dim : Filled(d)

\* C2: pivot selection always returns: the pass that draws the random
\* start can be left, i.e. the pool is empty (the draw raises) or holds an
\* object that is not forbidden.
C2_DrawLoopExits ==
    pc = "draw" =>
        \/ DrawPool = << >>
        \/ \E p \in DOMAIN DrawPool :
              DrawPool[p] \notin Forbidden(pivot_ids, ihyprpln)

SingleClass ==
    /\ yin # NoLabels
    /\ (\A o \in Obj : yin[o] = 0) \/ (\A o \in Obj : yin[o] = 1)

\* C3: with labels of a single class, fit ends in an error before any
\* distance is computed and before any pivot or coordinate is written; it
\* neither hangs (every pass it is in leads to the error) nor returns a
\* trained state.
C3_SingleClassFails ==
    SingleClass =>
        /\ pc \in {"idle", "draw", "refine", "error"}
        /\ ~Trained
        /\ ~dcalled
        /\ wr = {}
        /\ pivot_ids = NoPivots /\ X_piv = NoPivots /\ W_piv = NanPivots
        /\ pc = "draw" => (DrawPool = << >> \/ ihyprpln = 0)
        /\ pc = "refine" => Eligible(y, 0) = << >>

\* fit has raised on labels that are all 1 (the draw succeeds, the ranking
\* of the label-0 objects is empty)
C3_Witness ==
    /\ SingleClass
    /\ yin[0] = 1
    /\ pc = "error"

\* the recurrence of the claim: d := sqrt(max(d^2 - (a[i] - b[i])^2, 0))
\* for i = lo .. k-1 in order
RECURSIVE Recurrence(_, _, _, _, _)
Recurrence(d, a, b, lo, k) ==
    IF lo >= k THEN d
    ELSE Recurrence(Sqrt(Max(d * d - (a[lo] - b[lo]) * (a[lo] - b[lo]), 0)),
                    a, b, lo + 1, k)

\* C4: the residual distance of both implementations is the recurrence
\* applied for i = 0..k-1; it is >= 0, and once 0 at some cursor it is 0 at
\* every later cursor.
C4_Residual ==
    LET ref == Recurrence(pf.dist, pf.a, pf.b, 0, pf.k)
        zeroed == \E k1 \in 0 .. pf.k : Recurrence(pf.dist, pf.a, pf.b, 0, k1) = 0
    IN /\ pf.core # Unset => (pf.core = ref /\ pf.core >= 0 /\ (zeroed => pf.core = 0))
       /\ pf.svm # Unset => (pf.svm = ref /\ pf.svm >= 0 /\ (zeroed => pf.svm = 0))

\* both functions applied at the full cursor to a pair that underflows at
\* dimension 0 and differs again at the last dimension
C4_Witness ==
    /\ pf.core # Unset /\ pf.svm # Unset
    /\ pf.k = NDim
    /\ pf.dist > 0
    /\ pf.dist * pf.dist < (pf.a[0] - pf.b[0]) * (pf.a[0] - pf.b[0])
    /\ pf.a[NDim - 1] # pf.b[NDim - 1]

\* core.py: a transform of at least one object has returned
TransformDone == impl = "core" /\ pc = "idle" /\ Trained /\ Wq # Empty

\* C5: after fit, transform of a stored pivot object X_piv[d][s] returns
\* the row W_piv[d][s] that fit kept for it.
C5_RoundTrip ==
    TransformDone =>
        \A r \in DOMAIN Xq, d \in Dim, s \in 1 .. 2 :
            Xq[r] = X_piv[d][s] => Wq[r] = W_piv[d][s]

\* C6: the matrix transform returns is the one it returns for every batch
\* size b >= 1 (smaller than, not dividing, and larger than the number of
\* objects), and so is the distance vector distance_matrix hands fit.
C6_BatchInvariance ==
    /\ TransformDone =>
          \A b \in 1 .. (MaxNew + 1) : transform(Xq, b) = Wq
    /\ (impl = "core" /\ pc = "coords") =>
          \A b \in 1 .. (NObj + 1), s \in 1 .. 2 :
              distance_matrix(arange(NObj), pivot_ids[ihyprpln][s], W,
                              ihyprpln, b)
                = distance_matrix(arange(NObj), pivot_ids[ihyprpln][s], W,
                                  ihyprpln, batch_size)

\* transform has returned a matrix with a non-zero last row for a number of
\* objects the batch size does not divide
C6_Witness ==
    /\ TransformDone
    /\ batch_size > 1
    /\ NRows > batch_size
    /\ NRows % batch_size # 0
    /\ Wq[NRows - 1] # ZeroRow

\* the residual distance of the pivots of a written training column c
PivotDistance(c) ==
    LET i == pivot_ids[c][1]
        j == pivot_ids[c][2]
    IN IF impl = "core"
       THEN ResidualCore(dfun[<< i, j >>], W[i], W[j], c)
       ELSE ResidualSvm(dfun[<< i, j >>], W[i], W[j], c)

\* C7: a dimension whose pivots are at residual distance 0 gets a column of
\* finite values for every object (no division by zero), in fit and in
\* embed_database, and training goes on.
C7_DegenerateFinite ==
    (pc \in FitStages /\ "W" \in held) =>
        \A c \in Dim :
            (<< 0, c >> \in wr /\ PivotDistance(c) = 0)
                => \A o \in Obj : IsFinite(W[o][c])

\* C8: when fit returns, the engine holds exactly the pivot index table,
\* X_piv and W_piv, every entry filled, and neither X nor W.
C8_TrainedArtifact ==
    (impl = "core" /\ pc = "idle" /\ Trained) =>
        /\ held = {"_pivot_ids", "_X_piv", "_W_piv"}
        /\ \A d \in Dim : Filled(d)
        /\ \A d \in Dim, s \in 1 .. 2 : X_piv[d][s] \in Obj
        /\ \A d \in Dim, s \in 1 .. 2, c \in Dim : ~IsNaN(W_piv[d][s][c])

\* C9: the cursor is in 0..D, and it is 0 whenever no call is in progress.
C9_CursorReset ==
    /\ ihyprpln \in 0 .. NDim
    /\ pc = "idle" => ihyprpln = 0

\* the matrix the call in progress writes: transform's, else the training W
Matrix == IF Wq # Empty THEN Wq ELSE W
MatrixRows == DOMAIN Matrix
\* the rows written together with row r: its batch in transform, every row
\* in fit, embed_database and embed
BatchOf(r) ==
    IF pc \in {"batch"} \/ (impl = "core" /\ Wq # Empty)
    THEN {r2 \in MatrixRows : r2 \div batch_size = r \div batch_size}
    ELSE MatrixRows

\* a step reads only cells written before it
ReadsWritten == rd' \subseteq wr
\* a written cell keeps its value while the call goes on
WrittenStable ==
    \A cell \in wr \cap wr' : Matrix'[cell[1]][cell[2]] = Matrix[cell[1]][cell[2]]
\* a written cell has every earlier column written, in every row
OrderAllRows ==
    \A cell \in wr : \A r \in MatrixRows, c \in 0 .. (cell[2] - 1) :
        << r, c >> \in wr
\* a written cell has every earlier column written in the rows of its
\* batch, and every column written in the rows of earlier batches
OrderPerBatch ==
    \A cell \in wr :
        /\ \A r \in BatchOf(cell[1]), c \in 0 .. (cell[2] - 1) : << r, c >> \in wr
        /\ \A r \in MatrixRows, c \in Dim :
              (r < cell[1] /\ r \notin BatchOf(cell[1])) => << r, c >> \in wr

BothClasses == yin # NoLabels /\ LabelCount(0) >= 1 /\ LabelCount(1) >= 1

\* C11: with labels of both classes, the first pivot of every dimension has
\* label 0 and the second has label 1, whatever the distances, the random
\* start and the forbidden set (also when every object of a class is
\* already a pivot).
C11_OppositeClasses ==
    BothClasses =>
        \A d \in Dim :
            X_piv[d] # << Unset, Unset >>
                => yin[X_piv[d][1]] = 0 /\ yin[X_piv[d][2]] = 1

\* the pivots of the last dimension were chosen when the only label-0
\* object was already a pivot
C11_Witness ==
    /\ BothClasses /\ supervised
    /\ LabelCount(0) = 1
    /\ pc = "coords"
    /\ ihyprpln = NDim - 1
    /\ X_piv[NDim - 1] # << Unset, Unset >>

\* the residual distance furthest ranks object o by, from object i
RankKey(o, i) ==
    IF impl = "core" THEN ResidualCore(dfun[<< o, i >>], W[o], W[i], ihyprpln)
    ELSE ResidualSvm(dfun[<< i, o >>], W[i], W[o], ihyprpln)

\* C12: the ranking furthest returns for the random start is in descending
\* order of residual distance with equal distances in ascending index
\* order, and the pivot taken from it is the lowest index among the
\* non-forbidden objects at the greatest distance.
C12_StableTieBreak ==
    (pc = "refine" /\ i_obj = Unset) =>
        LET f == furthest(j_obj, Label0, y, W, ihyprpln)
            free == {p \in DOMAIN f : f[p] \notin Forbidden(pivot_ids, ihyprpln)}
            taken == ForBreak(f, Forbidden(pivot_ids, ihyprpln), Unset)
        IN /\ \A p \in DOMAIN f, q \in DOMAIN f :
                 p < q => \/ RankKey(f[p], j_obj) > RankKey(f[q], j_obj)
                          \/ /\ RankKey(f[p], j_obj) = RankKey(f[q], j_obj)
                             /\ f[p] < f[q]
           /\ free # {} =>
                 \A p \in free :
                    RankKey(f[p], j_obj) = RankKey(taken, j_obj) => taken <= f[p]

\* C13: without labels, the two pivots chosen for a dimension are distinct
\* objects whenever at least two objects were not forbidden.
C13_PivotsDistinct ==
    (impl = "core" /\ pc \in FitStages /\ ~supervised) =>
        \A d \in Dim :
            (Filled(d) /\ Cardinality(Obj \ Forbidden(pivot_ids, d)) >= 2)
                => pivot_ids[d][1] # pivot_ids[d][2]

=============================================================================
